---- MODULE Spec2Model ----
(***************************************************************************)
(* Model of the download worker of telegram-vreddit-bot:                   *)
(*   - cancer/command/download.py : the job pipeline (_handle_payload and  *)
(*     its helpers) that fetches, converts, uploads and replies;           *)
(*   - cancer/mqtt.py : the receive loop (subscribe / on_message) that     *)
(*     hands every delivered payload to the handler.                       *)
(* The external collaborators (yt-dlp, ffmpeg, the Telegram calls, the     *)
(* broker) are inputs: every step draws their outcome from a small set.    *)
(***************************************************************************)
EXTENDS Naturals, Sequences, FiniteSets, TLC

\* ---------------------------------------------------------------- bounds
MaxUrls == 2          \* longest urls list of a job
MaxFiles == 1         \* most files one fetch leaves in its subfolder
MaxDeliveries == 2    \* messages the broker sends in one run

\* ---------------------------------------------------------------- inputs
UrlPool == <<"A", "B", "C", "D">>
UrlLists == {SubSeq(UrlPool, 1, n) : n \in 0..MaxUrls}
ChatIds == {10}
MessageIds == {5}
Jobs == [chat_id : ChatIds, message_id : MessageIds, urls : UrlLists]

\* names mkdtemp can give the workspace
FolderNames == {"tmp1", "tmp2"}
\* names uuid4 can give a per-URL subfolder
CureIds == 1..MaxUrls

\* names yt-dlp can write: output<autonumber>.<ext>, one per download
Exts == {".mp4", ".webm"}

\* what os.listdir can answer for a subfolder that holds k <= MaxFiles files
\* output1..outputk: the k names, each with its extension, in any order
Listings ==
    UNION {{[i \in 1..k |-> <<perm[i], ext[perm[i]]>>] :
              perm \in {f \in [1..k -> 1..k] :
                          \A i, j \in 1..k : i # j => f[i] # f[j]},
              ext \in [1..k -> Exts]} : k \in 0..MaxFiles}

\* outcomes of ytdl.download: return 0, return non-zero, raise DownloadError
FetchOutcomes == {"zero", "nonzero", "raise"}
ExitCodes == {0, 1}

\* ---------------------------------------------------------- environment
\* os.getenv answers None for an unset name, else the string: None is the
\* empty tuple, a string s the tuple <<s>>. The port is spelled character
\* by character so that int() has something to parse.
None == <<>>
Str(s) == <<s>>
Environments == [MQTT_HOST : {None, Str(""), Str("broker")},
             MQTT_PORT : {None, Str(<<>>), Str(<<"1", "8">>),
                          Str(<<"8", "x">>)},
             MQTT_USER : {None, Str(""), Str("bot")},
             MQTT_PASSWORD : {None, Str("secret")},
             MQTT_TRANSPORT : {None, Str(""), Str("websockets")},
             MQTT_TOPIC_DOWNLOAD : {None, Str(""), Str("cancer/instaDownload"),
                                    Str("cancer/download"),
                                    Str("cancer/instaDownload/")}]
\* what RabbitConfig.from_env and MqttConfig.from_env can answer
ConfigOutcomes == {"ok", "ValueError"}
FromEnv == [rabbit : ConfigOutcomes, mqtt : ConfigOutcomes]

\* the environment of the runs in which the worker is in its receive loop
LoopEnv == [MQTT_HOST |-> Str("broker"), MQTT_PORT |-> Str(<<"1", "8">>),
            MQTT_USER |-> Str("bot"), MQTT_PASSWORD |-> Str("secret"),
            MQTT_TRANSPORT |-> None, MQTT_TOPIC_DOWNLOAD |-> None]

Nil == [none |-> TRUE]
DeserializationError == [error |-> "DeserializationError"]

\* ------------------------------------------------------- message envelope
\* A raw payload is the tuple of the fields it carries; a well-formed one
\* carries chat_id, message_id and urls.
serialize(m) == <<m.chat_id, m.message_id, m.urls>>

deserialize(raw) ==
    IF Len(raw) = 3
    THEN [chat_id |-> raw[1], message_id |-> raw[2], urls |-> raw[3]]
    ELSE DeserializationError

Malformed == {<<10, 5>>}
RawPayloads == {serialize(m) : m \in Jobs} \cup Malformed

\* ------------------------------------------------------------- filesystem
\* A path under the storage root is the tuple of its components:
\* <<folder>>, <<folder, cure_id>>, <<folder, cure_id, autonumber, ext>>.
join(dir, name) == dir \o name

IsPrefix(d, p) == Len(d) <= Len(p) /\ SubSeq(p, 1, Len(d)) = d

splitext(path) == <<SubSeq(path, 1, Len(path) - 1), path[Len(path)]>>

\* a removal that takes the directory entry only, as os.rmdir would
cleanup_shallow(fsys, dir) == fsys \ {dir}

\* TemporaryDirectory.__exit__: recursive removal of the workspace
cleanup(fsys, dir) == {p \in fsys : ~IsPrefix(dir, p)}

VARIABLES
    pending,      \* numbers of the messages sent, not yet given to on_message
    published,    \* number of messages the broker has sent
    loop,         \* the blocking callback(...) loop: "running" or "crashed"
    deliveries,   \* one record per on_message call, in call order
    pc,           \* position of the handler: "idle","fetch","upload","send"
    payload,      \* the job being handled
    folder,       \* the job's workspace directory
    urlIdx,       \* index of the next url to fetch
    files,        \* files collected so far
    fileIdx,      \* index of the next file to upload
    video_ids,    \* handles collected so far
    fs,           \* paths that exist under the storage root
    calls,        \* trace of the current job: collaborator calls and exit
    env,          \* the environment variables of the process
    from_env,     \* what the two configurations answer to from_env()
    runpc,        \* position of run: "start","select","subscribe",
                  \* "blocked" (inside subscribe) or "failed"
    topic,        \* the topic run chose
    subscriber,   \* the subscriber run chose
    subscribed,   \* the subscribe calls run made
    checked,      \* what mqtt.check answered, "none" before it is called
    sigterm       \* "none" until SIGTERM is delivered

startVars == <<env, from_env, runpc, topic, subscriber, subscribed, checked>>

vars == <<pending, published, loop, deliveries, pc, payload, folder, urlIdx,
          files, fileIdx, video_ids, fs, calls, startVars, sigterm>>

handlerVars == <<pc, payload, folder, urlIdx, files, fileIdx, video_ids>>

\* the handler and the broker before the first message
InitHandler ==
    /\ pending = <<>>
    /\ published = 0
    /\ deliveries = <<>>
    /\ pc = "idle"
    /\ payload = Nil
    /\ folder = Nil
    /\ urlIdx = 0
    /\ files = <<>>
    /\ fileIdx = 0
    /\ video_ids = <<>>
    /\ fs = {}
    /\ calls = <<>>
    /\ sigterm = "none"

\* run has reached subscribe (download.py line 117): the worker is in the
\* receive loop of mqtt.py, subscribed to the default topic.
Init ==
    /\ InitHandler
    /\ loop = "running"
    /\ env = LoopEnv
    /\ from_env = [rabbit |-> "ValueError", mqtt |-> "ok"]
    /\ runpc = "blocked"
    /\ topic = "download"
    /\ subscriber = "mqtt"
    /\ subscribed = <<[subscriber |-> "mqtt", topic |-> "download"]>>
    /\ checked = "none"

Range(s) == {s[i] : i \in 1..Len(s)}

\* ------------------------------------------------- download.py, helpers
\* The trace entry of one collaborator call (or of the handler's entry/exit).
Call(op, arg, res, out) == [op |-> op, arg |-> arg, res |-> res, out |-> out]

\* line 25: uuid4 never repeats an id; which unused id it gives makes no
\* difference to the handler, so the least unused one stands for all.
uuid4(fsys, dir) ==
    CHOOSE c \in CureIds :
        /\ join(dir, <<c>>) \notin fsys
        /\ \A b \in CureIds : join(dir, <<b>>) \notin fsys => c <= b

\* the listing is returned whatever the return code
_download_videos_any_code(cure_dir, return_code, cure_names) ==
    [i \in 1..Len(cure_names) |-> join(cure_dir, cure_names[i])]

\* lines 34-44: a non-zero return code yields no files, otherwise every
\* name listed in the subfolder is joined to the subfolder's path.
_download_videos(cure_dir, return_code, cure_names) ==
    IF return_code # 0
    THEN <<>>
    ELSE [i \in 1..Len(cure_names) |-> join(cure_dir, cure_names[i])]

\* the exit code of ffmpeg is not looked at
_convert_cure_unchecked(exit_code) == "ok"

\* lines 54-55: a non-zero exit of ffmpeg raises RuntimeError.
_convert_cure(exit_code) ==
    IF exit_code # 0 THEN "RuntimeError" ELSE "ok"

\* the extension is compared without its dot, so every file is converted
_ensure_compatibility_no_dot(original_path, exit_code) ==
    LET base == splitext(original_path)[1]
        ext == splitext(original_path)[2]
        converted_path == Append(base, ".mp4")
    IN  IF ext = "mp4"
        THEN [converted |-> FALSE, path |-> original_path, res |-> "ok"]
        ELSE [converted |-> TRUE, path |-> converted_path,
              res |-> _convert_cure(exit_code)]

\* lines 58-65: an .mp4 path is returned unchanged and nothing is converted;
\* any other path is converted to its sibling <base>.mp4.
_ensure_compatibility(original_path, exit_code) ==
    LET base == splitext(original_path)[1]
        ext == splitext(original_path)[2]
        converted_path == Append(base, ".mp4")
    IN  IF ext = ".mp4"
        THEN [converted |-> FALSE, path |-> original_path, res |-> "ok"]
        ELSE [converted |-> TRUE, path |-> converted_path,
              res |-> _convert_cure(exit_code)]

\* line 19: the chat every file is uploaded to
_UPLOAD_CHAT == 1259947317

\* the files of a url are put in front of the files collected before
collect_in_front(collected, got) == got \o collected

\* lines 80-84: the comprehension keeps the files in the order of the urls,
\* and within a url in the order _download_videos returned them.
collect(collected, got) == collected \o got

\* the uploads start as soon as a file is there
after_fetch_eager(i, urls, all) ==
    IF all # <<>> THEN "upload"
    ELSE IF i < Len(urls) THEN "fetch" ELSE "send"

\* lines 80-91: the comprehension over the urls is finished before the
\* comprehension over the files starts; with no file the reply comes next.
after_fetch(i, urls, all) ==
    IF i < Len(urls) THEN "fetch"
    ELSE IF all = <<>> THEN "send" ELSE "upload"

\* a failing upload is swallowed and yields an empty file_id
_upload_video_swallow(video_file, exit_code, upload, n) ==
    LET cure == _ensure_compatibility(video_file, exit_code)
    IN  IF cure.res # "ok"
        THEN [res |-> cure.res, converted |-> cure.converted,
              uploaded |-> FALSE, path |-> cure.path, file_id |-> 0]
        ELSE [res |-> "ok", converted |-> cure.converted,
              uploaded |-> TRUE, path |-> cure.path,
              file_id |-> IF upload = "ok" THEN n ELSE 0]

\* lines 68-73: the compatible file is uploaded; a failing conversion or a
\* failing upload leaves _upload_video as an exception. `upload` is the
\* answer of telegram.upload_video, `n` the file_id it gives on success.
_upload_video(video_file, exit_code, upload, n) ==
    LET cure == _ensure_compatibility(video_file, exit_code)
    IN  IF cure.res # "ok"
        THEN [res |-> cure.res, converted |-> cure.converted,
              uploaded |-> FALSE, path |-> cure.path, file_id |-> 0]
        ELSE IF upload # "ok"
        THEN [res |-> "UploadError", converted |-> cure.converted,
              uploaded |-> TRUE, path |-> cure.path, file_id |-> 0]
        ELSE [res |-> "ok", converted |-> cure.converted,
              uploaded |-> TRUE, path |-> cure.path, file_id |-> n]

\* ----------------------------------------------------- mqtt.py, subscribe
\* the message is handed over but stays on the connection
receive_keep(q) == [msg |-> Head(q), rest |-> q]

\* the newest message is handed over first
receive_newest(q) == [msg |-> q[Len(q)], rest |-> SubSeq(q, 1, Len(q) - 1)]

\* lines 64-73: the loop takes the messages of the connection one at a time,
\* oldest first.
receive(q) == [msg |-> Head(q), rest |-> Tail(q)]

\* line 62: the handler's Result is discarded; a fault leaves on_message.
on_message_end(result) ==
    IF result = "fault" THEN "raised" ELSE "returned"

\* lines 64-73: callback(...) blocks in the receive loop; an exception that
\* leaves on_message leaves the loop as well and ends subscribe.
callback(end, running) ==
    IF end = "raised" THEN "crashed" ELSE running

\* The handler is left with `result` ("Ack" or "fault"): the workspace is
\* removed (with TemporaryDirectory, line 79), control returns to on_message.
HandlerExit(result, fsys, trace) ==
    /\ fs' = cleanup(fsys, folder)
    /\ calls' = Append(trace, Call("exit", payload, result, <<>>))
    /\ pc' = "idle"
    /\ payload' = Nil
    /\ folder' = Nil
    /\ urlIdx' = 0
    /\ files' = <<>>
    /\ fileIdx' = 0
    /\ video_ids' = <<>>
    /\ deliveries' = [deliveries EXCEPT ![Len(deliveries)] =
                        [@ EXCEPT !.ended = @ + 1,
                                  !.outcome = result,
                                  !.end = on_message_end(result)]]
    /\ loop' = callback(on_message_end(result), loop)
    /\ UNCHANGED <<pending, published>>

\* ---------------------------------------------------------------- broker
\* The broker sends one more message on the subscribed topic; messages are
\* numbered in the order they are sent. The payload of a message shows only
\* when on_message reads it, so it is drawn there.
Publish ==
    /\ loop = "running"
    /\ published < MaxDeliveries
    /\ pending' = Append(pending, published + 1)
    /\ published' = published + 1
    /\ UNCHANGED <<loop, deliveries, handlerVars, fs, calls>>
    /\ UNCHANGED <<startVars, sigterm>>

\* mqtt.py lines 59-62: the loop hands the next message to on_message, which
\* deserializes it and calls the handler; download.py lines 76-79: the
\* handler creates its workspace.
on_message ==
    /\ loop = "running"
    /\ pc = "idle"
    /\ pending # <<>>
    /\ UNCHANGED <<startVars, sigterm>>
    /\ \E raw \in RawPayloads :
       LET id == receive(pending).msg
           msg == deserialize(raw)
       IN  /\ pending' = receive(pending).rest
           /\ UNCHANGED published
           /\ IF msg = DeserializationError
              THEN /\ deliveries' = Append(deliveries,
                        [id |-> id, wellformed |-> raw \notin Malformed,
                         invoked |-> 0,
                         ended |-> 0, outcome |-> "none", applied |-> "none",
                         end |-> "raised"])
                   /\ loop' = callback("raised", loop)
                   /\ calls' = <<>>
                   /\ UNCHANGED <<handlerVars, fs>>
              ELSE /\ deliveries' = Append(deliveries,
                        [id |-> id, wellformed |-> raw \notin Malformed,
                         invoked |-> 1,
                         ended |-> 0, outcome |-> "none", applied |-> "none",
                         end |-> "running"])
                   /\ \E name \in FolderNames :
                         /\ <<name>> \notin fs
                         /\ folder' = <<name>>
                         /\ fs' = fs \cup {<<name>>}
                   /\ payload' = msg
                   /\ urlIdx' = 1
                   /\ files' = <<>>
                   /\ fileIdx' = 1
                   /\ video_ids' = <<>>
                   /\ pc' = IF msg.urls = <<>> THEN "send" ELSE "fetch"
                   /\ calls' = <<Call("handle", msg, "enter", <<>>)>>
                   /\ UNCHANGED loop

\* download.py lines 80-84 with 24-44: one url of the comprehension is
\* fetched into a fresh subfolder.
_handle_payload_fetch ==
    /\ pc = "fetch"
    /\ UNCHANGED <<startVars, sigterm>>
    /\ \E outcome \in FetchOutcomes, cure_names \in Listings :
          LET url == payload.urls[urlIdx]
              cure_id == uuid4(fs, folder)
              cure_dir == join(folder, <<cure_id>>)
              written == {join(cure_dir, n) : n \in Range(cure_names)}
              fs1 == fs \cup {cure_dir} \cup written
              return_code == IF outcome = "zero" THEN 0 ELSE 1
              got == _download_videos(cure_dir, return_code, cure_names)
              all == collect(files, got)
          IN  /\ cure_dir \notin fs
              /\ IF outcome = "raise"
                 THEN HandlerExit("fault", fs1,
                          Append(calls, Call("fetch", url, "raise",
                                 [dir |-> cure_dir, listing |-> cure_names,
                                  files |-> <<>>])))
                 ELSE /\ fs' = fs1
                      /\ files' = all
                      /\ urlIdx' = urlIdx + 1
                      /\ pc' = after_fetch(urlIdx, payload.urls, all)
                      /\ calls' = Append(calls, Call("fetch", url, outcome,
                                    [dir |-> cure_dir, listing |-> cure_names,
                                     files |-> got]))
                      /\ UNCHANGED <<pending, published, loop, deliveries,
                                     payload, folder, fileIdx, video_ids>>

\* download.py line 85 with 68-73, 58-65 and 47-55: one file of the
\* comprehension is made compatible and uploaded. The trace records what the
\* collaborators answered (ffmpeg's exit code, Telegram's answer).
_handle_payload_upload ==
    /\ pc = "upload"
    /\ UNCHANGED <<startVars, sigterm>>
    /\ \E exit_code \in ExitCodes, upload \in {"ok", "error"},
          partial \in BOOLEAN :
          LET video_file == files[fileIdx]
              up == _upload_video(video_file, exit_code, upload,
                                  Len(video_ids) + 1)
              conv == IF up.converted
                      THEN <<Call("convert",
                                  [input |-> video_file, output |-> up.path],
                                  IF exit_code = 0 THEN "ok" ELSE "error",
                                  exit_code)>>
                      ELSE <<>>
              upl == IF up.uploaded
                     THEN <<Call("upload",
                                 [chat_id |-> _UPLOAD_CHAT,
                                  file |-> video_file, path |-> up.path],
                                 upload, up.file_id)>>
                     ELSE <<>>
              fs1 == IF up.converted /\ (exit_code = 0 \/ partial)
                     THEN fs \cup {up.path} ELSE fs
          IN  IF up.res # "ok"
              THEN HandlerExit("fault", fs1, calls \o conv \o upl)
              ELSE /\ fs' = fs1
                   /\ video_ids' = Append(video_ids, up.file_id)
                   /\ fileIdx' = fileIdx + 1
                   /\ pc' = IF fileIdx < Len(files) THEN "upload" ELSE "send"
                   /\ calls' = calls \o conv \o upl
                   /\ UNCHANGED <<pending, published, loop, deliveries,
                                  payload, folder, urlIdx, files>>

\* the reply is skipped when there is nothing to send
_handle_payload_send_nonempty ==
    /\ pc = "send"
    /\ UNCHANGED <<startVars, sigterm>>
    /\ \E res \in {"ok", "error"} :
          IF video_ids = <<>>
          THEN HandlerExit("Ack", fs, calls)
          ELSE HandlerExit(IF res = "ok" THEN "Ack" ELSE "fault", fs,
                   Append(calls,
                       Call("send", [chat_id |-> payload.chat_id,
                                     reply_to_message_id |-> payload.message_id,
                                     videos |-> video_ids], res, <<>>)))

\* the reply goes to the chat the files were uploaded to
_handle_payload_send_upload_chat ==
    /\ pc = "send"
    /\ UNCHANGED <<startVars, sigterm>>
    /\ \E res \in {"ok", "error"} :
          HandlerExit(IF res = "ok" THEN "Ack" ELSE "fault", fs,
              Append(calls,
                  Call("send", [chat_id |-> _UPLOAD_CHAT,
                                reply_to_message_id |-> payload.message_id,
                                videos |-> video_ids], res, <<>>)))

\* a rejected reply is caught and answered with Nack
_handle_payload_send_nack ==
    /\ pc = "send"
    /\ UNCHANGED <<startVars, sigterm>>
    /\ \E res \in {"ok", "error"} :
          HandlerExit(IF res = "ok" THEN "Ack" ELSE "Nack", fs,
              Append(calls,
                  Call("send", [chat_id |-> payload.chat_id,
                                reply_to_message_id |-> payload.message_id,
                                videos |-> video_ids], res, <<>>)))

\* download.py lines 87-93: the group reply, then Ack.
_handle_payload_send ==
    /\ pc = "send"
    /\ UNCHANGED <<startVars, sigterm>>
    /\ \E res \in {"ok", "error"} :
          HandlerExit(IF res = "ok" THEN "Ack" ELSE "fault", fs,
              Append(calls,
                  Call("send", [chat_id |-> payload.chat_id,
                                reply_to_message_id |-> payload.message_id,
                                videos |-> video_ids], res, <<>>)))

_handle_payload ==
    \/ _handle_payload_fetch
    \/ _handle_payload_upload
    \/ _handle_payload_send

Next ==
    \/ Publish
    \/ on_message
    \/ _handle_payload

Spec == Init /\ [][Next]_vars

TypeOK ==
    /\ loop \in {"off", "running", "crashed"}
    /\ runpc \in {"start", "select", "subscribe", "blocked", "failed"}
    /\ sigterm \in {"none", "delivered"}
    /\ pc \in {"idle", "fetch", "upload", "send"}
    /\ published \in 0..MaxDeliveries
    /\ Len(pending) <= MaxDeliveries

\* ------------------------------------------------------ mqtt.py, check
\* lines 12-15: the module reads its settings once, from the environment
_HOST == env.MQTT_HOST
_PORT == env.MQTT_PORT
_USER == env.MQTT_USER
_PASSWORD == env.MQTT_PASSWORD

\* the transport is read without a default
_TRANSPORT_no_default == env.MQTT_TRANSPORT

\* line 16: os.getenv("MQTT_TRANSPORT", "tcp")
_TRANSPORT ==
    IF env.MQTT_TRANSPORT = None THEN Str("tcp") ELSE env.MQTT_TRANSPORT

\* Python's `not value` for None or a string
Not(value) == value = None \/ value = Str("")

\* the same for a string spelled character by character
NotChars(value) == value = None \/ value = Str(<<>>)

Digits == {"0", "1", "2", "3", "4", "5", "6", "7", "8", "9"}

\* line 26: int(_PORT) raises ValueError unless the string spells a number
\* (the port strings of the model hold digits and letters only)
int(chars) ==
    IF Len(chars) > 0 /\ \A i \in 1..Len(chars) : chars[i] \in Digits
    THEN "ok" ELSE "ValueError"

\* lines 19-37: the first setting found missing, or a port that is no
\* number, raises ValueError; otherwise check returns.
check_result ==
    IF Not(_HOST) THEN "ValueError: MQTT_HOST missing"
    ELSE IF NotChars(_PORT) THEN "ValueError: MQTT_PORT missing"
    ELSE IF int(_PORT[1]) # "ok" THEN "ValueError: invalid literal for int()"
    ELSE IF Not(_USER) THEN "ValueError: MQTT_USER missing"
    ELSE IF Not(_PASSWORD) THEN "ValueError: MQTT_PASSWORD missing"
    ELSE IF Not(_TRANSPORT) THEN "ValueError: MQTT_TRANSPORT missing"
    ELSE "ok"

\* mqtt.check() is called
check ==
    /\ checked = "none"
    /\ checked' = check_result
    /\ UNCHANGED <<pending, published, loop, deliveries, handlerVars, fs,
                   calls, env, from_env, runpc, topic, subscriber,
                   subscribed, sigterm>>

\* -------------------------------------------------- download.py, run
\* every topic override that is set selects instaDownload
select_topic_any(legacy_topic) ==
    IF legacy_topic # None THEN "instaDownload" ELSE "download"

\* lines 104-108: only the legacy string selects instaDownload
select_topic(legacy_topic) ==
    IF legacy_topic = Str("cancer/instaDownload")
    THEN "instaDownload" ELSE "download"

\* the pub/sub subscriber is tried first
select_subscriber_mqtt_first(rabbit, mqtt) ==
    IF mqtt = "ok" THEN "mqtt"
    ELSE IF rabbit = "ok" THEN "rabbit" ELSE "ValueError"

\* lines 111-115: the Rabbit subscriber when its configuration validates;
\* on its ValueError the MQTT subscriber, whose own ValueError is not caught.
select_subscriber(rabbit, mqtt) ==
    IF rabbit = "ok" THEN "rabbit"
    ELSE IF mqtt = "ok" THEN "mqtt" ELSE "ValueError"

\* lines 97-109: telegram.check, the storage root, the SIGTERM handler and
\* the topic
run_prepare ==
    /\ runpc = "start"
    /\ \E telegram_check \in {"ok", "error"} :
          IF telegram_check = "ok"
          THEN /\ topic' = select_topic(env.MQTT_TOPIC_DOWNLOAD)
               /\ runpc' = "select"
          ELSE /\ runpc' = "failed"
               /\ UNCHANGED topic
    /\ UNCHANGED <<pending, published, loop, deliveries, handlerVars, fs,
                   calls, env, from_env, subscriber, subscribed, checked,
                   sigterm>>

\* lines 110-115
run_select ==
    /\ runpc = "select"
    /\ LET chosen == select_subscriber(from_env.rabbit, from_env.mqtt)
       IN  IF chosen = "ValueError"
           THEN /\ runpc' = "failed"
                /\ UNCHANGED subscriber
           ELSE /\ runpc' = "subscribe"
                /\ subscriber' = chosen
    /\ UNCHANGED <<pending, published, loop, deliveries, handlerVars, fs,
                   calls, env, from_env, topic, subscribed, checked, sigterm>>

\* line 117: subscribe blocks in the receive loop
run_subscribe ==
    /\ runpc = "subscribe"
    /\ subscribed' = Append(subscribed,
                            [subscriber |-> subscriber, topic |-> topic])
    /\ loop' = "running"
    /\ runpc' = "blocked"
    /\ UNCHANGED <<pending, published, deliveries, handlerVars, fs, calls,
                   env, from_env, topic, subscriber, checked, sigterm>>

run ==
    \/ run_prepare
    \/ run_select
    \/ run_subscribe

\* the process is started with any environment
InitRun ==
    /\ InitHandler
    /\ loop = "off"
    /\ env \in Environments
    /\ from_env \in FromEnv
    /\ runpc = "start"
    /\ topic = "none"
    /\ subscriber = "none"
    /\ subscribed = <<>>
    /\ checked = "none"

NextRun ==
    \/ check
    \/ run

SpecRun == InitRun /\ [][NextRun]_vars

\* ------------------------------------------------------------- SIGTERM
\* line 102: the handler installed for SIGTERM is a lambda of one parameter;
\* it calls sys.exit when it is called with one argument and fails with
\* TypeError otherwise.
sigterm_handler(nargs) ==
    IF nargs = 1 THEN "SystemExit" ELSE "TypeError"

\* SIGTERM is delivered while the worker is in its receive loop, idle or in
\* a job. Python calls the handler with two arguments (signum, frame) and
\* raises what it raises at the point the main thread has reached.
\* SystemExit passes every `except Exception`; a TypeError is an ordinary
\* exception, which the library code that was interrupted (the loop of
\* callback(...) around its select, a collaborator) either lets through or
\* absorbs.
SIGTERM ==
    /\ sigterm = "none"
    /\ loop = "running"
    /\ sigterm' = "delivered"
    /\ UNCHANGED startVars
    /\ \E absorbed \in BOOLEAN :
          LET raised == sigterm_handler(2)
          IN  IF raised = "TypeError" /\ absorbed
              THEN UNCHANGED <<pending, published, loop, deliveries,
                               handlerVars, fs, calls>>
              ELSE IF pc = "idle"
              THEN /\ loop' = callback("raised", loop)
                   /\ UNCHANGED <<pending, published, deliveries,
                                  handlerVars, fs, calls>>
              ELSE HandlerExit("fault", fs,
                       Append(calls, Call("signal", "SIGTERM", raised, <<>>)))

NextTerm ==
    \/ Next
    \/ SIGTERM

SpecTerm == Init /\ [][NextTerm]_vars

\* ------------------------------------------------------ reading the trace
OfOp(op) == SelectSeq(calls, LAMBDA c : c.op = op)
FetchCalls == OfOp("fetch")
ConvertCalls == OfOp("convert")
UploadCalls == OfOp("upload")
SendCalls == OfOp("send")

Exited == calls # <<>> /\ calls[Len(calls)].op = "exit"
ExitResult == calls[Len(calls)].res
Job == calls[1].arg

RECURSIVE Concat(_)
Concat(ss) == IF ss = <<>> THEN <<>> ELSE Head(ss) \o Concat(Tail(ss))

\* the files the urls that fetched successfully produced, in fetch order
Produced ==
    Concat([i \in 1..Len(FetchCalls) |->
              IF FetchCalls[i].res = "zero"
              THEN [j \in 1..Len(FetchCalls[i].out.listing) |->
                      join(FetchCalls[i].out.dir, FetchCalls[i].out.listing[j])]
              ELSE <<>>])

NoFetchRaised == \A i \in 1..Len(FetchCalls) : FetchCalls[i].res # "raise"

\* the fetch phase of the current job is over and no fetch raised
PastFetch ==
    /\ calls # <<>>
    /\ NoFetchRaised
    /\ pc \in {"upload", "send"} \/ Exited

\* ----------------------------------------------------------------- claims

\* C1: whenever the handler has exited, with Ack or by a fault, nothing of
\* the job's workspace (the directory, its per-URL subfolders, their files)
\* exists under the storage root.
C1_WorkspaceRemoved == pc = "idle" => fs = {}

\* a job whose fetch wrote files and whose handler was then left by a fault
C1_Witness ==
    /\ Exited
    /\ ExitResult = "fault"
    /\ \E i \in 1..Len(FetchCalls) : FetchCalls[i].out.listing # <<>>
    /\ ConvertCalls # <<>>

\* C2: a fetch that returns a non-zero code contributes no file, whatever it
\* left in its subfolder, and does not end the job: every url of the job is
\* fetched, in order; the files uploaded are the files produced by the urls
\* that fetched successfully, and a reply that is sent holds exactly the
\* handles of those uploads.
C2_FailedFetchSkipped ==
    /\ \A i \in 1..Len(FetchCalls) :
          FetchCalls[i].res = "nonzero" => FetchCalls[i].out.files = <<>>
    /\ \A i \in 1..Len(calls) :
          (calls[i].op = "fetch" /\ calls[i].res = "nonzero") =>
              IF i = Len(calls) THEN pc \in {"fetch", "upload", "send"}
              ELSE calls[i + 1].op # "exit"
    /\ PastFetch =>
          /\ [i \in 1..Len(FetchCalls) |-> FetchCalls[i].arg] = Job.urls
          /\ Len(UploadCalls) <= Len(Produced)
          /\ \A i \in 1..Len(UploadCalls) :
                UploadCalls[i].arg.file = Produced[i]
          /\ \A i \in 1..Len(SendCalls) :
                /\ Len(UploadCalls) = Len(Produced)
                /\ SendCalls[i].arg.videos =
                      [j \in 1..Len(UploadCalls) |-> UploadCalls[j].out]

\* urls [A, B]: A returns non-zero and leaves a file behind, B succeeds, and
\* the reply with B's handles has been sent
C2_Witness ==
    /\ Exited
    /\ ExitResult = "Ack"
    /\ Len(FetchCalls) = 2
    /\ FetchCalls[1].res = "nonzero"
    /\ FetchCalls[1].out.listing # <<>>
    /\ FetchCalls[2].res = "zero"
    /\ Len(UploadCalls) >= 1

\* C3 (as claimed): a fetch that raises is not fatal: the handler is not
\* left by it, the remaining urls are still fetched.
C3_FetchErrorNotFatal ==
    \A i \in 1..Len(calls) :
        (calls[i].op = "fetch" /\ calls[i].res = "raise") =>
            /\ i < Len(calls) => calls[i + 1].op # "exit"
            /\ Exited => Len(FetchCalls) = Len(Job.urls)

\* C4: when every url of a job returned a non-zero code, so that no file was
\* collected, no conversion and no upload is made, the group reply is made
\* once, with an empty list of handles, and the handler returns Ack when
\* that reply is accepted.
AllFetchesFailed ==
    /\ calls # <<>>
    /\ Len(Job.urls) >= 1
    /\ Len(FetchCalls) = Len(Job.urls)
    /\ \A i \in 1..Len(FetchCalls) : FetchCalls[i].res = "nonzero"

C4_EmptyReplyStillSent ==
    AllFetchesFailed =>
        /\ UploadCalls = <<>>
        /\ ConvertCalls = <<>>
        /\ pc = "send" \/ Exited
        /\ pc = "send" => SendCalls = <<>>
        /\ Exited =>
              /\ Len(SendCalls) = 1
              /\ SendCalls[1].arg.videos = <<>>
              /\ SendCalls[1].res = "ok" => ExitResult = "Ack"

\* both urls of a job failed to fetch and the handler returned Ack
C4_Witness ==
    /\ AllFetchesFailed
    /\ Len(Job.urls) = 2
    /\ Exited
    /\ ExitResult = "Ack"

\* C5: a conversion that exits non-zero ends the job at once: nothing is
\* converted, uploaded or sent after it, and the handler is left by a fault,
\* not with Ack.
C5_ConversionFailureAborts ==
    \A i \in 1..Len(calls) :
        (calls[i].op = "convert" /\ calls[i].out # 0) =>
            /\ i + 1 = Len(calls)
            /\ calls[i + 1].op = "exit"
            /\ calls[i + 1].res = "fault"

\* a second file failed to convert after a first one was uploaded
C5_Witness ==
    /\ \E i \in 1..Len(calls) : calls[i].op = "convert" /\ calls[i].out # 0
    /\ UploadCalls # <<>>

\* C6: a failing upload or a failing group reply ends the job by a fault,
\* never with Ack, and a job left by a fault has no group reply in the chat.
C6_UploadSendFailureFatal ==
    /\ \A i \in 1..Len(calls) :
          (calls[i].op \in {"upload", "send"} /\ calls[i].res = "error") =>
              /\ i + 1 = Len(calls)
              /\ calls[i + 1].op = "exit"
              /\ calls[i + 1].res = "fault"
    /\ (Exited /\ ExitResult = "fault") =>
          \A i \in 1..Len(SendCalls) : SendCalls[i].res # "ok"
    /\ (Exited /\ ExitResult = "fault" /\ calls[Len(calls) - 1].op # "send")
          => SendCalls = <<>>

\* a second upload failed after a first one succeeded
C6_Witness ==
    /\ Exited
    /\ Len(UploadCalls) = 2
    /\ UploadCalls[1].res = "ok"
    /\ UploadCalls[2].res = "error"

\* C7 (as claimed): a fault of the handler is answered with Nack for that
\* message and the receive loop keeps running.
C7_FaultIsNacked ==
    \A i \in 1..Len(deliveries) :
        deliveries[i].outcome = "fault" =>
            /\ deliveries[i].applied = "Nack"
            /\ loop = "running"

\* C8 (as claimed): a malformed payload does not reach the handler, is
\* answered with Nack and does not leave the receive loop as a fault.
C8_MalformedIsNacked ==
    \A i \in 1..Len(deliveries) :
        ~deliveries[i].wellformed =>
            /\ deliveries[i].invoked = 0
            /\ deliveries[i].applied = "Nack"
            /\ deliveries[i].end # "raised"
            /\ loop = "running"

\* C9: every message given to on_message is given once; the handler is
\* called once for it when its payload is well-formed, never more than
\* once, and every call that is over ended in one outcome, Ack or a fault.
C9_HandledExactlyOnce ==
    /\ \A i, j \in 1..Len(deliveries) :
          i # j => deliveries[i].id # deliveries[j].id
    /\ \A i \in 1..Len(deliveries) :
          LET d == deliveries[i]
          IN  /\ d.invoked <= 1
              /\ d.wellformed => d.invoked = 1
              /\ d.ended <= d.invoked
              /\ (i < Len(deliveries) \/ pc = "idle") =>
                    /\ d.ended = d.invoked
                    /\ d.invoked = 1 => d.outcome \in {"Ack", "fault"}
              /\ d.ended = 0 => d.outcome = "none"

\* two messages were delivered and each had its one handler call end
C9_Witness ==
    /\ Len(deliveries) = 2
    /\ \A i \in 1..2 : deliveries[i].invoked = 1 /\ deliveries[i].ended = 1

\* C10: jobs are handled one after the other in the order the broker sent
\* them: every earlier handler call is over before the next message is
\* taken, at most one workspace exists, and the trace of collaborator calls
\* belongs to the one job being handled.
C10_Sequential ==
    /\ \A i \in 1..Len(deliveries) : deliveries[i].id = i
    /\ \A i \in 1..Len(deliveries) :
          i < Len(deliveries) => deliveries[i].ended = deliveries[i].invoked
    /\ Cardinality({p \in fs : Len(p) = 1}) <= 1
    /\ pc # "idle" =>
          /\ deliveries[Len(deliveries)].ended = 0
          /\ calls[1].op = "handle"
          /\ calls[1].arg = payload
          /\ \A i \in 2..Len(calls) : calls[i].op \notin {"handle", "exit"}

\* the second job is in its pipeline after the first one has ended
C10_Witness ==
    /\ Len(deliveries) = 2
    /\ pc = "upload"
    /\ deliveries[1].ended = 1
    /\ fs # {}

\* the sibling of a path: same directory, same base name, extension .mp4
Sibling(path) == [path EXCEPT ![Len(path)] = ".mp4"]

\* C13: a file that is .mp4 already is uploaded as it is, with no conversion
\* call for it; any other file has exactly one conversion call, from the
\* file to its sibling .mp4, and the path uploaded is that sibling.
C13_ConvertOnlyWhenNeeded ==
    /\ \A i \in 1..Len(calls) :
          calls[i].op = "upload" =>
              LET f == calls[i].arg.file
                  converts == {j \in 1..Len(calls) :
                                 /\ calls[j].op = "convert"
                                 /\ calls[j].arg.input = f}
              IN  IF f[Len(f)] = ".mp4"
                  THEN /\ converts = {}
                       /\ calls[i].arg.path = f
                  ELSE /\ converts = {i - 1}
                       /\ calls[i - 1].arg.output = Sibling(f)
                       /\ calls[i].arg.path = Sibling(f)
    /\ \A j \in 1..Len(calls) :
          calls[j].op = "convert" =>
              /\ calls[j].arg.input[Len(calls[j].arg.input)] # ".mp4"
              /\ calls[j].arg.output = Sibling(calls[j].arg.input)
              /\ \A k \in 1..Len(calls) :
                    (calls[k].op = "convert" /\
                     calls[k].arg.input = calls[j].arg.input) => k = j

\* an .mp4 file and a .webm file were both uploaded
C13_Witness ==
    /\ \E i \in 1..Len(UploadCalls) :
          UploadCalls[i].arg.file[Len(UploadCalls[i].arg.file)] = ".mp4"
    /\ \E i \in 1..Len(UploadCalls) :
          /\ UploadCalls[i].arg.file[Len(UploadCalls[i].arg.file)] = ".webm"
          /\ UploadCalls[i].res = "ok"
    /\ ConvertCalls # <<>>

\* the position in the job's urls of the url whose fetch wrote file f
UrlOf(f) ==
    CHOOSE i \in 1..Len(FetchCalls) :
        IsPrefix(FetchCalls[i].out.dir, f)

\* C14: within a job the fetches follow the order of urls, the uploads are
\* made one after the other with the files of an earlier url before the
\* files of a later one, and the reply lists the handles in upload order.
C14_OrderFollowsUrls ==
    calls # <<>> =>
        /\ Len(FetchCalls) <= Len(Job.urls)
        /\ \A i \in 1..Len(FetchCalls) : FetchCalls[i].arg = Job.urls[i]
        /\ \A i, j \in 1..Len(UploadCalls) :
              i < j => UrlOf(UploadCalls[i].arg.file)
                         <= UrlOf(UploadCalls[j].arg.file)
        /\ \A i \in 1..Len(SendCalls) :
              SendCalls[i].arg.videos =
                  [j \in 1..Len(UploadCalls) |-> UploadCalls[j].out]

\* files of two urls were uploaded and the reply was sent
C14_Witness ==
    /\ Exited
    /\ ExitResult = "Ack"
    /\ Len(UploadCalls) >= 2
    /\ UrlOf(UploadCalls[1].arg.file) # UrlOf(UploadCalls[2].arg.file)

\* the phase a trace entry belongs to
Phase(op) ==
    CASE op = "handle" -> 0
      [] op = "fetch" -> 1
      [] op = "convert" -> 2
      [] op = "upload" -> 3
      [] op = "send" -> 4
      [] op = "exit" -> 5

\* the number of fetch calls among the first n trace entries
FetchesBefore(n) ==
    Cardinality({i \in 1..n : calls[i].op = "fetch"})

\* C16 (as claimed): the phases follow one another and none is returned to:
\* every fetch before every conversion, every conversion before every
\* upload, the reply after all uploads.
C16_PhasesInOrder ==
    \A i, j \in 1..Len(calls) :
        i < j => Phase(calls[i].op) <= Phase(calls[j].op)

\* C16 (amended): every fetch of the job precedes every conversion and every
\* upload; the files are then taken one at a time, each converted (when it
\* needs it) right before its own upload, so that a conversion can follow
\* the upload of an earlier file; the reply follows all uploads and nothing
\* follows the reply but the exit.
C16_PhasesInterleaved ==
    /\ \A i \in 1..Len(calls) :
          calls[i].op \in {"convert", "upload", "send"} =>
              FetchesBefore(i) = Len(Job.urls)
    /\ \A i \in 1..Len(calls) :
          calls[i].op = "fetch" => FetchesBefore(i) = i - 1
    /\ \A i \in 1..Len(calls) :
          (calls[i].op = "convert" /\ i < Len(calls)) =>
              \/ /\ calls[i + 1].op = "upload"
                 /\ calls[i + 1].arg.file = calls[i].arg.input
              \/ calls[i + 1].op = "exit"
    /\ \A i \in 1..Len(calls) :
          calls[i].op = "send" =>
              /\ i + 1 = Len(calls) /\ calls[i + 1].op = "exit"
              /\ Len(UploadCalls) = Len(Produced)
              /\ \A j \in 1..Len(UploadCalls) : UploadCalls[j].res = "ok"

\* a file was converted after an earlier file had been uploaded, and the
\* job ended with Ack
C16_Witness ==
    /\ Exited
    /\ ExitResult = "Ack"
    /\ \E i, j \in 1..Len(calls) :
          i < j /\ calls[i].op = "upload" /\ calls[j].op = "convert"

Distinct(s) == \A i, j \in 1..Len(s) : i # j => s[i] # s[j]

\* C17: no job sends more than one group reply, and a job that ends with Ack
\* has sent exactly one, to the job's chat_id, in reply to the job's
\* message_id, with one handle per fetched file, in order, none twice.
C17_OneReplyPerAck ==
    /\ Len(SendCalls) <= 1
    /\ (Exited /\ ExitResult = "Ack") =>
          /\ Len(SendCalls) = 1
          /\ SendCalls[1].res = "ok"
          /\ SendCalls[1].arg.chat_id = Job.chat_id
          /\ SendCalls[1].arg.reply_to_message_id = Job.message_id
          /\ Len(SendCalls[1].arg.videos) = Len(Produced)
          /\ SendCalls[1].arg.videos =
                [j \in 1..Len(UploadCalls) |-> UploadCalls[j].out]
          /\ \A j \in 1..Len(UploadCalls) :
                UploadCalls[j].arg.file = Produced[j]
          /\ Distinct(SendCalls[1].arg.videos)

\* a job with two fetched files ended with Ack
C17_Witness ==
    /\ Exited
    /\ ExitResult = "Ack"
    /\ Len(Produced) >= 2

\* a collaborator call of the current job failed
SomeFailure ==
    \E i \in 1..Len(calls) :
        \/ calls[i].op = "fetch" /\ calls[i].res = "raise"
        \/ calls[i].op \in {"convert", "upload", "send"} /\ calls[i].res = "error"

\* C19: the handler returns no Result but Ack, and Ack only right after a
\* group reply that was accepted; every failure of the pipeline leaves the
\* handler as an unhandled fault.
C19_OnlyAck ==
    /\ \A i \in 1..Len(deliveries) :
          deliveries[i].outcome \in {"none", "Ack", "fault"}
    /\ Exited =>
          /\ ExitResult \in {"Ack", "fault"}
          /\ ExitResult = "Ack" <=>
                /\ calls[Len(calls) - 1].op = "send"
                /\ calls[Len(calls) - 1].res = "ok"
          /\ SomeFailure <=> ExitResult = "fault"

\* after one job that ended with Ack, a job left by a fault of its reply
C19_Witness ==
    /\ Len(deliveries) = 2
    /\ deliveries[1].outcome = "Ack"
    /\ deliveries[2].outcome = "fault"
    /\ SendCalls # <<>>

\* ------------------------------------------------------ claims on startup

\* C11: run uses the Rabbit subscriber whenever its configuration validates,
\* the MQTT subscriber when only Rabbit's fails, and fails without calling
\* subscribe when both fail; a start that succeeds has chosen one
\* subscriber and called subscribe on it once.
C11_SubscriberSelection ==
    /\ Len(subscribed) <= 1
    /\ runpc = "blocked" <=> Len(subscribed) = 1
    /\ runpc \in {"subscribe", "blocked"} =>
          /\ from_env.rabbit = "ok" => subscriber = "rabbit"
          /\ from_env.rabbit # "ok" =>
                subscriber = "mqtt" /\ from_env.mqtt = "ok"
    /\ runpc = "blocked" =>
          /\ subscribed[1].subscriber = subscriber
          /\ loop = "running"
    /\ (from_env.rabbit # "ok" /\ from_env.mqtt # "ok") =>
          /\ subscribed = <<>>
          /\ runpc \in {"start", "select", "failed"}
          /\ loop = "off"

\* Rabbit's configuration failed and run is in subscribe of the MQTT one
C11_Witness ==
    /\ runpc = "blocked"
    /\ from_env.rabbit = "ValueError"
    /\ subscriber = "mqtt"

\* C12: the topic run subscribes to is instaDownload exactly when
\* MQTT_TOPIC_DOWNLOAD is "cancer/instaDownload"; for every other value,
\* the empty one and the unset one too, it is the download topic.
C12_LegacyTopic ==
    /\ runpc \in {"select", "subscribe", "blocked"} =>
          /\ topic \in {"download", "instaDownload"}
          /\ topic = "instaDownload" <=>
                env.MQTT_TOPIC_DOWNLOAD = <<"cancer/instaDownload">>
    /\ \A i \in 1..Len(subscribed) : subscribed[i].topic = topic

\* run subscribed to the download topic with an override that is set but is
\* not the legacy string
C12_Witness ==
    /\ runpc = "blocked"
    /\ env.MQTT_TOPIC_DOWNLOAD = <<"cancer/download">>
    /\ subscribed[1].topic = "download"

\* a setting that is unset or empty
Absent(value) == value = <<>> \/ value = <<"">>
AbsentChars(value) == value = <<>> \/ value = <<<<>>>>

\* C18: mqtt.check raises ValueError exactly when host, port, user or
\* password is unset or empty, the port is no number, or the transport is
\* set to the empty string; an unset transport stands for tcp and does not
\* make it fail.
C18_CheckFailsIffIncomplete ==
    checked # "none" =>
        (checked # "ok" <=>
            \/ Absent(env.MQTT_HOST)
            \/ AbsentChars(env.MQTT_PORT)
            \/ \E i \in 1..Len(env.MQTT_PORT[1]) :
                  env.MQTT_PORT[1][i] \notin Digits
            \/ Absent(env.MQTT_USER)
            \/ Absent(env.MQTT_PASSWORD)
            \/ env.MQTT_TRANSPORT = <<"">>)

\* check returned with every setting present but the transport, unset
C18_Witness ==
    /\ checked = "ok"
    /\ env.MQTT_TRANSPORT = <<>>

\* ------------------------------------------------------ claim on SIGTERM

\* C15 (as claimed): once SIGTERM has been delivered the worker has left its
\* receive loop, no job is in its pipeline and the job that was in flight
\* did not end with Ack.
C15_SigtermTerminates ==
    sigterm = "delivered" =>
        /\ loop # "running"
        /\ pc = "idle"

====
